---- MODULE Spec2Model ----
(***************************************************************************)
(* The paginator of interactions/ext/paginator/paginator.py: one session   *)
(* (Paginator.run) as a state machine whose steps are the awaits of run,   *)
(* and the control renderer (select_row, buttons_row, components) as pure  *)
(* operators of the session's fields.                                      *)
(*                                                                         *)
(* Python values are encoded as follows.                                   *)
(*   Optional[x]   : <<>> for None, <<x>> for a value x                    *)
(*   f"{role}{id}" : the pair <<role, id>>                                 *)
(*   f"{placeholder} {a}/{b}" : the triple <<placeholder, a, b>>           *)
(*   str(n)        : the sequence of the decimal digits of n               *)
(*   a dict / an object's _json : a record                                 *)
(*   a list        : a sequence (Python index i is TLA+ index i + 1)       *)
(***************************************************************************)
EXTENDS Integers, Sequences, FiniteSets, TLC

VARIABLES
    \* configuration, fixed by Paginator.__init__
    timeout, author_only, use_buttons, use_select, use_index,
    extended_buttons, custom_callback, disable_after_timeout,
    remove_after_timeout, func_before_edit, func_after_edit, id,
    \* the caller's objects the session holds: the pages with their own rows,
    \* the overriding Buttons and the custom Buttons (the renderer writes to
    \* the Buttons it puts in a row)
    pages, buttons, custom_buttons,
    \* the session's mutable fields
    index, prev_index, top, component_ctx, message,
    \* the position of run, and how it ended
    pc, exit,
    \* what the host displays (the payload of the latest send or edit)
    rendered,
    \* history: the steps run for the latest admitted event, and the number of
    \* "This paginator is not for you!" notices sent
    steps, notices,
    \* history: the number of final edits end_paginator has issued
    end_edits,
    \* another session running on the same event stream, None when there is none
    peer

settings == <<timeout, author_only, use_buttons, use_select, use_index,
              extended_buttons, custom_callback, disable_after_timeout,
              remove_after_timeout, func_before_edit, func_after_edit, id>>

config == <<settings, pages, buttons, custom_buttons>>

vars == <<config, index, prev_index, top, component_ctx, message, pc, exit,
          rendered, steps, notices, end_edits, peer>>

-----------------------------------------------------------------------------
\* Bounds of the model.

\* the largest number of pages of a session
MaxPages == 3
\* the largest number of custom extra buttons
MaxCustom == 4
\* the number of rejection notices after which no further event is rejected
MaxNotices == 2

\* Program constants.

\* a select menu holds at most 25 options
SelectLimit == 25
\* the longest title Page.__init__ leaves whole, and the characters it keeps
\* of a longer one
TitleLimit == 96
TitleKeep == 93
\* an action row holds at most 5 buttons
RowCapacity == 5
\* the default timeout, in seconds
DefaultTimeout == 60

None == <<>>
Some(x) == <<x>>

\* the user of the original invocation (self.ctx.user.id) and another user
Author == "author"
Users == {Author, "other"}

SessionIds == {7}

placeholder == "Page"

-----------------------------------------------------------------------------
\* Python helpers.

Min(a, b) == IF a < b THEN a ELSE b
Max(a, b) == IF a > b THEN a ELSE b

\* range(n)
range(n) == 0 .. (n - 1)

\* str(n) for n >= 0: the decimal digits, most significant first
RECURSIVE str(_)
str(n) == IF n < 10 THEN <<n>> ELSE Append(str(n \div 10), n % 10)

\* int(s) for a string of decimal digits
RECURSIVE int(_)
int(s) == IF Len(s) = 0 THEN 0
          ELSE 10 * int(SubSeq(s, 1, Len(s) - 1)) + s[Len(s)]

\* filter(None, xs) on a list of optionals: the values, in order
RECURSIVE filterNone(_)
filterNone(xs) == IF Len(xs) = 0 THEN <<>>
                  ELSE xs[1] \o filterNone(Tail(xs))

\* list.insert(i, x)
insert(xs, i, x) == LET k == Min(i, Len(xs))
                    IN SubSeq(xs, 1, k) \o <<x>> \o SubSeq(xs, k + 1, Len(xs))

\* d.update({key: val}) on a record
update(d, e) == e @@ d

-----------------------------------------------------------------------------
\* Pages.

RowPositions == {"top", "mid", "low"}

\* a custom button of a page's own row
PageButton(p) == [style |-> 2, label |-> <<"page", p>>, custom_id |-> <<"pagebtn", p>>]

\* a text of n characters, and the text "No title"
Text(ch, n) == [k \in 1 .. n |-> ch]
NoTitle == <<"N", "o", " ", "t", "i", "t", "l", "e">>

\* Embed(title=...), and the embeds argument of Page: None, one Embed or a
\* list of Embeds
Embed(title) == [title |-> title]
OneEmbed(embed) == Some([is_list |-> FALSE, items |-> <<embed>>])
EmbedList(embeds) == Some([is_list |-> TRUE, items |-> embeds])

\* f"{text[:93]}..." if len(text) > 96 else text
truncate(text) ==
    IF Len(text) > TitleLimit
    THEN SubSeq(text, 1, Min(TitleKeep, Len(text))) \o Text(".", 3)
    ELSE text

\* next((... for embed in embeds if embed.title), "No title")
RECURSIVE first_title(_)
first_title(embeds) ==
    IF embeds = <<>> THEN NoTitle
    ELSE IF embeds[1].title # <<>> THEN truncate(embeds[1].title)
    ELSE first_title(Tail(embeds))

\* the _title Page.__init__ computes (an empty text and None are both falsy)
_title(content, embeds, title) ==
    IF title # <<>> THEN title
    ELSE IF content # <<>> THEN truncate(content)
    ELSE IF embeds # None /\ ~embeds[1].is_list /\ embeds[1].items[1].title # <<>>
        THEN truncate(embeds[1].items[1].title)
    ELSE IF embeds # None /\ embeds[1].is_list /\ embeds[1].items # <<>>
            /\ embeds[1].items[1].title # <<>>
        THEN first_title(embeds[1].items)
    ELSE NoTitle

\* Page(content, embeds, title, components, callback, position)
Page(content, embeds, title, components, callback, position) ==
    [content |-> content, embeds |-> embeds, title |-> _title(content, embeds, title),
     components |-> components, callback |-> callback, position |-> position]

\* Page.data
data(page) == [content |-> page.content, embeds |-> page.embeds]

\* The page lists sessions are built from.  "plain": no page has a row or a
\* callback.  Otherwise page 1 has a row and a callback, page 2 a row and no
\* callback, every further page a callback and no row, all at one position.
Layouts == {"plain"} \cup RowPositions

PageAt(p, layout) ==
    Page(<<"content", p>>, None, <<"title", p>>,
         IF layout # "plain" /\ p <= 2
            THEN Some([components |-> <<PageButton(p)>>]) ELSE None,
         layout # "plain" /\ p # 2,
         IF layout = "plain" THEN "top" ELSE layout)

PageList(n, layout) == [p \in 1 .. n |-> PageAt(p, layout)]

\* self.pages[i]: a list takes the indices -len .. len - 1, the negative ones
\* counting from the end, and raises IndexError for any other
IndexError(i) == i \notin -Len(pages) .. Len(pages) - 1
pages_at(i) == pages[(i % Len(pages)) + 1]

-----------------------------------------------------------------------------
\* Control renderer.

ButtonKinds == <<"first", "prev", "index", "next", "last">>

\* Paginator.custom_ids
custom_ids == <<<<"select", id>>, <<"first", id>>, <<"prev", id>>,
                <<"index", id>>, <<"next", id>>, <<"last", id>>>>

\* f"{self.placeholder} {self.index + 1}/{self.top + 1}"
index_label == <<placeholder, index + 1, top + 1>>

\* the Button the renderer makes when the caller overrides nothing
DefaultButton(kind) ==
    IF kind = "index" THEN [style |-> 1, label |-> index_label]
    ELSE [style |-> 1, emoji |-> kind]

\* a Button a caller supplies for a role: its own style and label, and an
\* identifier and a disabled state of the caller's choosing
OverrideButton(kind) ==
    [style |-> 3, label |-> <<"mine", kind>>, custom_id |-> <<"mine", kind>>,
     disabled |-> (kind \in {"prev", "index"})]

\* a custom extra button
CustomButton(k) == [style |-> 2, label |-> <<"extra", k>>, custom_id |-> <<"extra", k>>]

\* self.buttons.get(kind, Button(...))
buttons_get(kind) ==
    IF kind \in DOMAIN buttons THEN buttons[kind] ELSE DefaultButton(kind)

\* render_button with the left-hand roles taken as custom_ids[1:2]: prev falls
\* to the right-hand rule
render_button_slice(button, i) ==
    LET cid == custom_ids[i + 2]
        disabled == IF cid \in {custom_ids[2]} THEN index = 0
                    ELSE IF cid = custom_ids[4] THEN TRUE
                    ELSE index = top
        b1 == update(button, [custom_id |-> cid, disabled |-> disabled])
    IN IF cid = custom_ids[4] THEN update(b1, [label |-> index_label]) ELSE b1

\* the body of the loop of buttons_row for the button at list position i
\* (0-based): identifier, disabled state and, for the index label, the label
render_button(button, i) ==
    LET cid == custom_ids[i + 2]
        disabled_left == index = 0
        disabled_right == index = top
        disabled == IF cid \in {custom_ids[2], custom_ids[3]} THEN disabled_left
                    ELSE IF cid = custom_ids[4] THEN TRUE
                    ELSE disabled_right
        b1 == update(button, [custom_id |-> cid, disabled |-> disabled])
    IN IF cid = custom_ids[4] THEN update(b1, [label |-> index_label]) ELSE b1

\* the five slots of buttons_row, None where the button is absent
button_slots ==
    [i \in 1 .. 5 |->
        LET kind == ButtonKinds[i]
            present == CASE kind \in {"first", "last"} -> extended_buttons
                         [] kind = "index" -> use_index
                         [] OTHER -> TRUE
        IN IF present THEN Some(render_button(buttons_get(kind), i - 1)) ELSE None]

\* the default buttons present, in order
default_buttons == filterNone(button_slots)

\* with_custom with `<` for `<=`: a row filled exactly is refused
with_custom_strict(btns) ==
    IF Len(custom_buttons) > 0 /\ Len(custom_buttons) + Len(btns) < RowCapacity
    THEN btns \o custom_buttons ELSE btns

\* custom buttons are appended iff they fit the row
with_custom(btns) ==
    IF Len(custom_buttons) > 0 /\ Len(custom_buttons) + Len(btns) <= RowCapacity
    THEN btns \o custom_buttons ELSE btns

\* Paginator.buttons_row
buttons_row ==
    IF ~use_buttons THEN None
    ELSE Some([components |-> with_custom(default_buttons)])

\* Paginator.select_row
select_row ==
    IF ~use_select \/ Len(pages) > SelectLimit THEN None
    ELSE LET select_options ==
                 [page_num \in 1 .. Len(pages) |->
                     [label |-> <<page_num, pages[page_num].title>>,
                      value |-> page_num]]
             select == [options |-> select_options,
                        custom_id |-> custom_ids[1],
                        placeholder |-> index_label,
                        min_values |-> 1, max_values |-> 1]
         IN Some([components |-> <<select>>])

\* Paginator.page_row
page_row == pages_at(index).components

\* components appending a MIDDLE page row
components_middle_appended ==
    LET rows == <<select_row, buttons_row>>
        pos == pages_at(index).position
        placed == IF page_row = None THEN rows
                  ELSE CASE pos = "top" -> insert(rows, 0, page_row)
                         [] pos = "mid" -> Append(rows, page_row)
                         [] pos = "low" -> Append(rows, page_row)
                         [] OTHER -> rows
    IN filterNone(placed)

\* Paginator.components
components ==
    LET rows == <<select_row, buttons_row>>
        pos == pages_at(index).position
        placed == IF page_row = None THEN rows
                  ELSE CASE pos = "top" -> insert(rows, 0, page_row)
                         [] pos = "mid" -> insert(rows, 1, page_row)
                         [] pos = "low" -> Append(rows, page_row)
                         [] OTHER -> rows
    IN filterNone(placed)

\* component.disabled = True
disable(component) == update(component, [disabled |-> TRUE])

\* Paginator.disabled_components
disabled_components ==
    [r \in 1 .. Len(components) |->
        [components |->
            [c \in 1 .. Len(components[r].components) |->
                disable(components[r].components[c])]]]

\* Paginator.removed_components
removed_components == None

\* the slot of buttons_row a role has
slot_of(kind) == CHOOSE i \in 1 .. 5 : ButtonKinds[i] = kind

\* self.buttons once buttons_row has run: the loop of buttons_row writes the
\* identifier, the disabled state and the index label to the caller's own
\* Button of every role present
buttons_rendered ==
    IF ~use_buttons THEN buttons
    ELSE [kind \in DOMAIN buttons |->
            IF button_slots[slot_of(kind)] = None THEN buttons[kind]
            ELSE button_slots[slot_of(kind)][1]]

\* the caller's objects once disabled_components has run: the Buttons of the
\* current page's own row, the overriding Buttons and the custom Buttons in
\* the tree are the caller's own, and are left disabled
pages_disabled ==
    IF page_row = None THEN pages
    ELSE [pages EXCEPT ![(index % Len(pages)) + 1].components =
             Some([components |->
                      [c \in 1 .. Len(page_row[1].components) |->
                          disable(page_row[1].components[c])]])]
buttons_disabled ==
    IF ~use_buttons THEN buttons
    ELSE [kind \in DOMAIN buttons |->
            IF button_slots[slot_of(kind)] = None THEN buttons[kind]
            ELSE disable(button_slots[slot_of(kind)][1])]
custom_buttons_disabled ==
    IF use_buttons /\ Len(with_custom(default_buttons)) > Len(default_buttons)
    THEN [k \in 1 .. Len(custom_buttons) |-> disable(custom_buttons[k])]
    ELSE custom_buttons

\* the leaves of a control tree, row after row
RECURSIVE leaves(_)
leaves(tree) == IF Len(tree) = 0 THEN <<>>
                ELSE tree[1].components \o leaves(Tail(tree))

-----------------------------------------------------------------------------
\* What user code may do.  A hook or a callback either raises StopPaginator or
\* returns a value.

Returned(v) == [raises |-> FALSE, value |-> v]
Raised(v) == [raises |-> TRUE, value |-> v]

\* the results a render hook may return: False, None, 0 and True
HookValues == {"False", "None", "0", "True"}
HookOutcomes == {Raised("StopPaginator")} \cup {Returned(v) : v \in HookValues}

\* the results a callback may return: None or an integer, in range or not
CallbackValues == {None} \cup {Some(v) : v \in -1 .. Len(pages)}
CallbackOutcomes == {Raised(None)} \cup {Returned(v) : v \in CallbackValues}

\* Python's `not v` for a hook's result, and for a callback's
hook_falsy(v) == v \in {"False", "None", "0"}
falsy(res) == res = None \/ res = Some(0)

-----------------------------------------------------------------------------
\* The events the host can deliver: one per leaf of the displayed control tree,
\* a select carrying the value of one of its options as a string.

ValuesOf(c) ==
    IF "options" \in DOMAIN c
    THEN {<<str(c.options[k].value)>> : k \in 1 .. Len(c.options)}
    ELSE {<<>>}

Events ==
    LET ls == leaves(rendered.components)
    IN UNION {{[user |-> u, custom_id |-> ls[k].custom_id, values |-> v,
                message_id |-> rendered.id] :
                  u \in Users, v \in ValuesOf(ls[k])} : k \in 1 .. Len(ls)}

\* the identifiers the host gives the message of this session and the message
\* of the other session
MessageId == "message"
PeerMessageId == "message of the peer"

\* the number of pages of the other session
PeerPages == 2

\* the events of the controls of the other session's message: its select menu,
\* one option per page of the other session, and its navigation buttons; their
\* identifiers embed the other session's id
PeerEvents ==
    IF peer = None THEN {}
    ELSE {[user |-> u, custom_id |-> <<"select", peer[1].id>>, values |-> <<str(k)>>,
           message_id |-> PeerMessageId] :
             u \in Users, k \in 1 .. PeerPages}
         \cup
         {[user |-> u, custom_id |-> <<kind, peer[1].id>>, values |-> <<>>,
           message_id |-> PeerMessageId] :
             u \in Users, kind \in {"first", "prev", "next", "last"}}

\* the event stream of the host, shared by the sessions
Stream == Events \cup PeerEvents

-----------------------------------------------------------------------------
\* The session.

\* the wait without the message filter: every event of the stream matches
matches_any(e, message_id) == TRUE

\* the filter of wait_for_component(client, None, self.message.id, ...): the
\* events of the components of the message a session sent
matches(e, message_id) == e.message_id = message_id

\* check without the author test
check_everyone(user) == TRUE

\* Paginator.check: whether the event of this user is admitted
check(user) == IF author_only THEN user = Author ELSE TRUE

\* Paginator.run_function: the result of the hook or callback, None without one
run_function(func, outcome) == IF func # None THEN outcome ELSE Returned(None)

\* run without the test of the hook's result
is_False_dropped(result) == FALSE

\* run's test of a hook's result: `result is False`
is_False(result) == result = "False"

\* Page.run_callback: the callback runs only for a control of the page's own
\* row; otherwise nothing is called and None is returned
callback_runs(page, custom_id) ==
    /\ page.callback
    /\ page.components # None
    /\ ~(\A k \in 1 .. Len(page.components[1].components) :
            custom_id # page.components[1].components[k].custom_id)

run_callback(page, custom_id, outcome) ==
    IF callback_runs(page, custom_id) THEN outcome ELSE Returned(None)

\* in_range taking len(self.pages) itself for an index
in_range_inclusive(res) == res # None /\ res[1] \in 0 .. Len(pages)

\* `res in range(len(self.pages))`
in_range(res) == res # None /\ res[1] \in range(Len(pages))

\* navigate without the clamp of next
navigate_unclamped(custom_id, values, i) ==
    CASE custom_id = <<"select", id>> -> int(values[1]) - 1
      [] custom_id = <<"first", id>> -> 0
      [] custom_id = <<"prev", id>> -> Max(i - 1, 0)
      [] custom_id = <<"next", id>> -> i + 1
      [] custom_id = <<"last", id>> -> top

\* navigate taking the select's value for a 0-based index
navigate_zero_based(custom_id, values, i) ==
    CASE custom_id = <<"select", id>> -> int(values[1])
      [] custom_id = <<"first", id>> -> 0
      [] custom_id = <<"prev", id>> -> Max(i - 1, 0)
      [] custom_id = <<"next", id>> -> Min(i + 1, top)
      [] custom_id = <<"last", id>> -> top

\* the index a select or navigation event gives, from index i
navigate(custom_id, values, i) ==
    CASE custom_id = <<"select", id>> -> int(values[1]) - 1
      [] custom_id = <<"first", id>> -> 0
      [] custom_id = <<"prev", id>> -> Max(i - 1, 0)
      [] custom_id = <<"next", id>> -> Min(i + 1, top)
      [] custom_id = <<"last", id>> -> top

\* the identifiers component_logic resolves itself
navigation_ids == {<<"select", id>>, <<"first", id>>, <<"prev", id>>,
                   <<"next", id>>, <<"last", id>>}

\* whether the session-level callback runs after the page callback gave res
custom_callback_runs(res) == custom_callback # None /\ falsy(res)

\* the index after a callback's result: adopted when in range
adopt(res, i) == IF in_range(res) THEN res[1] ELSE i

Step(name, result) == [step |-> name, result |-> result]

\* Converter.difference: the entries of obj2 whose key obj1 lacks
difference(obj1, obj2) ==
    {<<key, obj2[key]>> : key \in {k \in DOMAIN obj2 : k \notin DOMAIN obj1}}

\* Paginator.component_change
component_change ==
    IF message = None THEN FALSE
    ELSE LET current == leaves(message[1].components)
             new == leaves(components)
         IN \E k \in 1 .. Min(Len(current), Len(new)) :
                difference(current[k], new[k]) # {}

\* the Message a send or an edit of the payload gives
Message(comps, page) == [id |-> MessageId, components |-> comps] @@ data(page)

\* Python's truth value of an attribute of a message: None, the empty text
\* and the empty list are false, an Embed and a list with items are true
truthy(attr, v) ==
    IF attr = "embeds"
    THEN v # None /\ ~(v[1].is_list /\ Len(v[1].items) = 0)
    ELSE Len(v) > 0

\* edit's merge: where the old message's attribute is true and the new
\* message's is not, the old one is taken (the id of the new message is never
\* empty, so it is kept)
merge(old, msg) ==
    [attr \in DOMAIN msg |->
        IF attr = "id" THEN msg[attr]
        ELSE IF truthy(attr, old[attr]) /\ ~truthy(attr, msg[attr])
             THEN old[attr] ELSE msg[attr]]

\* whether user code ran for the event in processing (only user code responds
\* to an event before edit does)
user_code_ran == \E k \in 1 .. Len(steps) : steps[k].step # "component_logic"

\* the call edit makes: message.edit when the event was responded to and
\* something changed, the event's own edit otherwise
edit_call(responded) ==
    IF responded /\ (prev_index # index \/ component_change)
    THEN "message.edit" ELSE "ctx.edit"

\* end_components testing disable_after_timeout first
end_components_disable_first ==
    IF disable_after_timeout THEN [missing |-> FALSE, components |-> disabled_components]
    ELSE IF remove_after_timeout THEN [missing |-> FALSE, components |-> removed_components]
    ELSE [missing |-> TRUE, components |-> None]

\* the argument end_paginator gives message.edit
end_components ==
    IF remove_after_timeout THEN [missing |-> FALSE, components |-> removed_components]
    ELSE IF disable_after_timeout THEN [missing |-> FALSE, components |-> disabled_components]
    ELSE [missing |-> TRUE, components |-> None]

\* what the host displays after message.edit(components=arg): MISSING keeps the
\* controls, anything else replaces them; the content, not given, is kept
after_end(shown, arg) ==
    IF arg.missing THEN shown
    ELSE [shown EXCEPT !.components = arg.components]

-----------------------------------------------------------------------------
\* Actions.

session == <<index, prev_index, top, component_ctx, message>>

\* self.message = await self.send()
\* (components() runs buttons_row before page_row raises IndexError for an
\* index outside the list; the exception leaves run)
Send ==
    /\ pc = "send"
    /\ buttons' = buttons_rendered
    /\ IF IndexError(index)
       THEN /\ pc' = "done"
            /\ exit' = "error"
            /\ UNCHANGED <<message, rendered>>
       ELSE /\ message' = Some(Message(components, pages_at(index)))
            /\ rendered' = Message(components, pages_at(index))
            /\ pc' = "wait"
            /\ UNCHANGED exit
    /\ UNCHANGED <<settings, pages, custom_buttons, peer, end_edits, index, prev_index, top,
                   component_ctx, steps, notices>>

\* wait_for_component delivers an event: check admits it, or rejects it with a
\* notice and the wait goes on
Wait ==
    /\ pc = "wait"
    /\ \E e \in {s \in Stream : matches(s, message[1].id)} :
          IF check(e.user)
          THEN /\ component_ctx' = Some(e)
               /\ steps' = <<>>
               /\ pc' = "before"
               /\ UNCHANGED notices
          ELSE /\ notices < MaxNotices
               /\ notices' = notices + 1
               /\ UNCHANGED <<component_ctx, steps, pc>>
    /\ UNCHANGED <<config, peer, end_edits, index, prev_index, top, message, exit, rendered>>

\* Timeout returning the result record without end_paginator
Timeout_returns_only ==
    /\ pc = "wait"
    /\ timeout # None
    /\ pc' = "done"
    /\ exit' = "timeout"
    /\ UNCHANGED <<config, peer, end_edits, session, rendered, steps, notices>>

\* Paginator.end_paginator: the final edit; disabled_components, evaluated
\* only when the controls are to be disabled and not removed, writes to the
\* caller's Buttons
end_paginator ==
    /\ rendered' = after_end(rendered, end_components)
    /\ end_edits' = end_edits + 1
    /\ IF ~remove_after_timeout /\ disable_after_timeout
       THEN /\ pages' = pages_disabled
            /\ buttons' = buttons_disabled
            /\ custom_buttons' = custom_buttons_disabled
       ELSE UNCHANGED <<pages, buttons, custom_buttons>>

\* wait_for_component times out: end_paginator, then return self.data()
Timeout ==
    /\ pc = "wait"
    /\ timeout # None
    /\ end_paginator
    /\ pc' = "done"
    /\ exit' = "timeout"
    /\ UNCHANGED <<settings, peer, session, steps, notices>>

\* Hook with the stop signal swallowed: run goes on as after any other result
Hook_stop_swallowed(at, func, name, next) ==
    /\ pc = at
    /\ IF func = None
       THEN /\ pc' = next
            /\ UNCHANGED <<steps, exit>>
       ELSE \E o \in HookOutcomes :
              LET r == run_function(func, o)
              IN /\ steps' = Append(steps, Step(name, r))
                 /\ IF ~r.raises /\ is_False(r.value) THEN pc' = "wait" ELSE pc' = next
                 /\ UNCHANGED exit
    /\ UNCHANGED <<config, peer, end_edits, session, rendered, notices>>

\* one render hook of run: a stop signal returns, False goes back to the
\* wait, anything else goes on to the step `next`
Hook(at, func, name, next) ==
    /\ pc = at
    /\ IF func = None
       THEN /\ pc' = next
            /\ UNCHANGED <<steps, exit>>
       ELSE \E o \in HookOutcomes :
              LET r == run_function(func, o)
              IN /\ steps' = Append(steps, Step(name, r))
                 /\ IF r.raises THEN pc' = "done" /\ exit' = "stop"
                    ELSE IF is_False(r.value) THEN pc' = "wait" /\ UNCHANGED exit
                    ELSE pc' = next /\ UNCHANGED exit
    /\ UNCHANGED <<config, peer, end_edits, session, rendered, notices>>

\* Before going on to the re-render, past the dispatch
Before_skips_dispatch == Hook("before", func_before_edit, "func_before_edit", "edit")

\* func_before_edit
Before == Hook("before", func_before_edit, "func_before_edit", "logic")

\* func_after_edit
After == Hook("after", func_after_edit, "func_after_edit", "wait")

\* component_logic is followed from one await to the next: its fallback awaits
\* the page's callback and, after it has assigned index, the session's
\* callback.  While the session's callback is awaited the step component_logic
\* is on record and run is still at its call.
custom_callback_pending ==
    \E k \in 1 .. Len(steps) : steps[k].step = "component_logic"

\* the fallback of component_logic up to the session's callback: the page's
\* callback and the index it gives.  A stop signal of the page callback leaves
\* run as an exception.
Fallback(custom_id, o1) ==
    LET r1 == run_callback(pages_at(index), custom_id, o1)
        called1 == callback_runs(pages_at(index), custom_id)
        s1 == IF called1 THEN <<Step("page_callback", r1)>> ELSE <<>>
    IN /\ steps' = steps \o <<Step("component_logic", Returned(None))>> \o s1
       /\ IF r1.raises
          THEN /\ pc' = "done"
               /\ exit' = "error"
               /\ UNCHANGED index
          ELSE /\ index' = adopt(r1.value, index)
               /\ pc' = IF custom_callback_runs(r1.value) THEN "logic" ELSE "edit"
               /\ UNCHANGED exit

\* the session's callback of the fallback: a stop signal is caught and
\* component_logic returns; a result in range becomes the index
CustomCallback(o2) ==
    LET r2 == run_function(custom_callback, o2)
    IN /\ steps' = Append(steps, Step("custom_callback", r2))
       /\ index' = IF r2.raises THEN index ELSE adopt(r2.value, index)
       /\ pc' = "edit"
       /\ UNCHANGED exit

\* await self.component_logic()
Logic ==
    /\ pc = "logic"
    /\ LET ctx == component_ctx[1]
       IN IF custom_callback_pending
          THEN \E o2 \in CallbackOutcomes : CustomCallback(o2)
          ELSE IF ctx.custom_id \in navigation_ids
          THEN /\ index' = navigate(ctx.custom_id, ctx.values, index)
               /\ steps' = Append(steps, Step("component_logic", Returned(None)))
               /\ pc' = "edit"
               /\ UNCHANGED exit
          ELSE \E o1 \in CallbackOutcomes : Fallback(ctx.custom_id, o1)
    /\ UNCHANGED <<config, peer, end_edits, prev_index, top, component_ctx, message, rendered, notices>>

\* Edit issuing no edit when the dispatch left index as it was
Edit_only_on_change ==
    /\ pc = "edit"
    /\ IF prev_index = index
       THEN UNCHANGED <<message, rendered, steps, buttons>>
       ELSE /\ buttons' = buttons_rendered
            /\ \E responded \in (IF user_code_ran THEN BOOLEAN ELSE {FALSE}) :
                  LET msg == Message(components, pages_at(index))
                      call == edit_call(responded)
                  IN /\ message' = Some(IF call = "message.edit" THEN msg
                                         ELSE merge(message[1], msg))
                     /\ rendered' = msg
                     /\ steps' = Append(steps, Step("edit", Returned(call)))
    /\ prev_index' = index
    /\ pc' = "after"
    /\ UNCHANGED <<settings, pages, custom_buttons, peer, end_edits, index, top,
                   component_ctx, exit, notices>>

\* self.message = await self.edit(); self.prev_index = self.index
\* (edit starts with component_change, whose components() runs buttons_row
\* and then raises IndexError for an index outside the list: the exception
\* leaves run with no edit issued)
Edit ==
    /\ pc = "edit"
    /\ buttons' = buttons_rendered
    /\ IF IndexError(index)
       THEN /\ steps' = Append(steps, Step("edit", Raised("IndexError")))
            /\ pc' = "done"
            /\ exit' = "error"
            /\ UNCHANGED <<message, rendered, prev_index>>
       ELSE /\ \E responded \in (IF user_code_ran THEN BOOLEAN ELSE {FALSE}) :
                  LET msg == Message(components, pages_at(index))
                      call == edit_call(responded)
                  IN /\ message' = Some(IF call = "message.edit" THEN msg
                                         ELSE merge(message[1], msg))
                     /\ rendered' = msg
                     /\ steps' = Append(steps, Step("edit", Returned(call)))
            /\ prev_index' = index
            /\ pc' = "after"
            /\ UNCHANGED exit
    /\ UNCHANGED <<settings, pages, custom_buttons, peer, end_edits, index, top,
                   component_ctx, notices>>

Next == Send \/ Wait \/ Timeout \/ Before \/ Logic \/ Edit \/ After

\* The other session is a second Paginator on the same event stream, built from
\* objects of its own: PeerPages plain pages, the default controls with a
\* select menu, a timeout, no hooks and no callbacks.  Its run is followed
\* from one await to the next, as the run of this session is.

\* Paginator.check of the other session
peer_check(user) == IF peer[1].author_only THEN user = peer[1].user ELSE TRUE

\* component_logic of the other session, on its own id and top; an identifier
\* that is not one of its own goes to the callback of its page, and its pages
\* have none
peer_navigate(custom_id, values, i) ==
    CASE custom_id = <<"select", peer[1].id>> -> int(values[1]) - 1
      [] custom_id = <<"first", peer[1].id>> -> 0
      [] custom_id = <<"prev", peer[1].id>> -> Max(i - 1, 0)
      [] custom_id = <<"next", peer[1].id>> -> Min(i + 1, peer[1].top)
      [] custom_id = <<"last", peer[1].id>> -> peer[1].top
      [] OTHER -> i

\* wait_for_component of the other session delivers an event of the stream
\* that matches its message: its check admits it, or rejects it with a notice
PeerWait ==
    /\ peer # None
    /\ peer[1].pc = "wait"
    /\ \E e \in {s \in Stream : matches(s, PeerMessageId)} :
          IF peer_check(e.user)
          THEN peer' = Some([peer[1] EXCEPT !.component_ctx = Some(e), !.pc = "logic"])
          ELSE /\ peer[1].notices < MaxNotices
               /\ peer' = Some([peer[1] EXCEPT !.notices = @ + 1])
    /\ UNCHANGED <<config, end_edits, session, pc, exit, rendered, steps, notices>>

\* the wait of the other session times out: end_paginator disables the
\* controls of its message and its run returns
PeerTimeout ==
    /\ peer # None
    /\ peer[1].pc = "wait"
    /\ peer' = Some([peer[1] EXCEPT !.pc = "done", !.exit = "timeout"])
    /\ UNCHANGED <<config, end_edits, session, pc, exit, rendered, steps, notices>>

\* the other session dispatches the event it admitted
PeerLogic ==
    /\ peer # None
    /\ peer[1].pc = "logic"
    /\ LET e == peer[1].component_ctx[1]
       IN peer' = Some([peer[1] EXCEPT
                           !.index = peer_navigate(e.custom_id, e.values, peer[1].index),
                           !.pc = "edit"])
    /\ UNCHANGED <<config, end_edits, session, pc, exit, rendered, steps, notices>>

\* the other session re-renders: its message shows the page at its index, and
\* then prev_index takes the index; an index outside its pages raises
\* IndexError, which ends its run
PeerEdit ==
    /\ peer # None
    /\ peer[1].pc = "edit"
    /\ IF peer[1].index \notin -PeerPages .. PeerPages - 1
       THEN peer' = Some([peer[1] EXCEPT !.pc = "done", !.exit = "error"])
       ELSE peer' = Some([peer[1] EXCEPT !.shown = peer[1].index % PeerPages,
                                         !.prev_index = peer[1].index,
                                         !.pc = "wait"])
    /\ UNCHANGED <<config, end_edits, session, pc, exit, rendered, steps, notices>>

NextTwo == Next \/ PeerWait \/ PeerTimeout \/ PeerLogic \/ PeerEdit

-----------------------------------------------------------------------------
\* Initial states: Paginator.__init__ on a configuration it accepts.

\* The session's fields are read from the keyword arguments of __init__:
\* kwargs.get("index", 0), kwargs.get("prev_index", 0),
\* kwargs.get("top", len(pages) - 1), kwargs.get("component_ctx"),
\* kwargs.get("message").  No value is checked against the pages.  These are
\* the values the model draws them from: the default of each, an index on
\* the second page, two counting from the end and one past the end, a top
\* below and one above the last page, an index and a top far past the end, and
\* an event and a message of an earlier session.
KwIndex == {-Len(pages), -1, 0, 1, Len(pages), 5}
KwPrevIndex == {0, 2}
KwTop == {Len(pages) - 2, Len(pages) - 1, Len(pages), 7}
KwComponentCtx ==
    {None, Some([user |-> Author, custom_id |-> <<"next", id>>, values |-> <<>>,
                 message_id |-> MessageId])}
KwMessage ==
    {None, Some([id |-> MessageId, components |-> <<>>, content |-> None,
                 embeds |-> None])}

\* the fields __init__ sets whatever the configuration
InitSession ==
    /\ id \in SessionIds
    /\ index \in KwIndex
    /\ prev_index \in KwPrevIndex
    /\ top \in KwTop
    /\ component_ctx \in KwComponentCtx
    /\ message \in KwMessage
    /\ pc = "send"
    /\ exit = "none"
    /\ rendered = [id |-> "", components |-> <<>>, content |-> None, embeds |-> None]
    /\ end_edits = 0
    /\ steps = <<>>
    /\ notices = 0

\* the call of __init__ that passes none of these keyword arguments
NoKwargs ==
    /\ index = 0
    /\ prev_index = 0
    /\ top = Len(pages) - 1
    /\ component_ctx = None
    /\ message = None

\* the caller's overrides of the default buttons
Overrides(kinds) == [kind \in kinds |-> OverrideButton(kind)]

\* the caller's custom extra buttons
Customs(n) == [k \in 1 .. n |-> CustomButton(k)]

\* the session with every hook, callback and post-timeout behaviour, and the
\* default controls
Init ==
    /\ pages \in {PageList(n, layout) : n \in 2 .. MaxPages, layout \in {"plain", "mid"}}
    /\ timeout \in {None, Some(DefaultTimeout)}
    /\ author_only \in BOOLEAN
    /\ use_buttons = TRUE
    /\ use_select = TRUE
    /\ use_index = FALSE
    /\ extended_buttons = TRUE
    /\ buttons = Overrides({})
    /\ custom_buttons = Customs(1)
    /\ custom_callback \in {None, Some("custom_callback")}
    /\ disable_after_timeout = TRUE
    /\ remove_after_timeout = FALSE
    /\ func_before_edit \in {None, Some("func_before_edit")}
    /\ func_after_edit \in {None, Some("func_after_edit")}
    /\ peer = None
    /\ InitSession
    /\ NoKwargs

Spec == Init /\ [][Next]_vars

\* the combinations of use_buttons and use_select __init__ accepts
Controls == {c \in [use_buttons : BOOLEAN, use_select : BOOLEAN] :
                c.use_buttons \/ c.use_select}

\* the sets of roles the caller overrides
OverrideSets == {{}, {"prev"}, {"index", "next", "last"},
                 {"first", "prev", "index", "next", "last"}}

\* the session of many pages: up to, at and above the ceiling of the select menu
InitPages ==
    /\ pages \in {PageList(n, "plain") :
                     n \in (2 .. MaxPages) \cup {SelectLimit, SelectLimit + 1}}
    /\ timeout = Some(DefaultTimeout)
    /\ author_only = FALSE
    /\ \E c \in Controls : use_buttons = c.use_buttons /\ use_select = c.use_select
    /\ use_index = FALSE
    /\ extended_buttons = TRUE
    /\ buttons = Overrides({})
    /\ custom_buttons = Customs(0)
    /\ custom_callback = None
    /\ disable_after_timeout = TRUE
    /\ remove_after_timeout = FALSE
    /\ func_before_edit = None
    /\ func_after_edit = None
    /\ peer = None
    /\ InitSession
    /\ NoKwargs

SpecPages == InitPages /\ [][Next]_vars

\* the session with every combination of controls
InitRender ==
    /\ pages \in {PageList(n, layout) : n \in 2 .. MaxPages, layout \in {"plain", "top"}}
    /\ timeout = Some(DefaultTimeout)
    /\ author_only = FALSE
    /\ \E c \in Controls : use_buttons = c.use_buttons /\ use_select = c.use_select
    /\ use_index \in BOOLEAN
    /\ extended_buttons \in BOOLEAN
    /\ buttons \in {Overrides(kinds) : kinds \in OverrideSets}
    /\ custom_buttons \in {Customs(n) : n \in 0 .. MaxCustom}
    /\ custom_callback = None
    /\ disable_after_timeout = TRUE
    /\ remove_after_timeout = FALSE
    /\ func_before_edit = None
    /\ func_after_edit = None
    /\ peer = None
    /\ InitSession
    /\ NoKwargs

SpecRender == InitRender /\ [][Next]_vars

\* the session with every post-timeout behaviour
InitEnd ==
    /\ pages \in {PageList(n, layout) : n \in 2 .. MaxPages, layout \in Layouts}
    /\ timeout \in {None, Some(DefaultTimeout)}
    /\ author_only = FALSE
    /\ \E c \in Controls : use_buttons = c.use_buttons /\ use_select = c.use_select
    /\ use_index \in BOOLEAN
    /\ extended_buttons = TRUE
    /\ buttons = Overrides({})
    /\ custom_buttons \in {Customs(n) : n \in 0 .. 1}
    /\ custom_callback = None
    /\ disable_after_timeout \in BOOLEAN
    /\ remove_after_timeout \in BOOLEAN
    /\ func_before_edit = None
    /\ func_after_edit = None
    /\ peer = None
    /\ InitSession
    /\ NoKwargs

SpecEnd == InitEnd /\ [][Next]_vars

\* the arguments pages are titled from: texts of the lengths around the
\* limit, no embeds, one Embed, a list of Embeds
Lengths == {0, 1, TitleKeep, TitleLimit, TitleLimit + 1}
EmbedsArgs ==
    {None, EmbedList(<<>>)}
        \cup {OneEmbed(Embed(Text("e", n))) : n \in {0, TitleLimit + 1}}
        \cup {EmbedList(<<Embed(Text("e", n)), Embed(Text("f", m))>>) :
                  n \in {0, TitleLimit + 1}, m \in {0, 1}}

\* the session whose first page is built from every such argument
InitTitle ==
    /\ \E c \in Lengths, t \in Lengths, e \in EmbedsArgs :
          pages = <<Page(Text("c", c), e, Text("t", t), None, FALSE, "top"),
                    PageAt(2, "plain")>>
    /\ timeout = Some(DefaultTimeout)
    /\ author_only = FALSE
    /\ use_buttons = TRUE
    /\ use_select = TRUE
    /\ use_index = FALSE
    /\ extended_buttons = TRUE
    /\ buttons = Overrides({})
    /\ custom_buttons = Customs(0)
    /\ custom_callback = None
    /\ disable_after_timeout = TRUE
    /\ remove_after_timeout = FALSE
    /\ func_before_edit = None
    /\ func_after_edit = None
    /\ peer = None
    /\ InitSession
    /\ NoKwargs

SpecTitle == InitTitle /\ [][Next]_vars

\* the session built with any of the keyword arguments
InitKwargs ==
    /\ pages \in {PageList(n, layout) : n \in 2 .. MaxPages, layout \in {"plain", "mid"}}
    /\ timeout = Some(DefaultTimeout)
    /\ author_only = FALSE
    /\ use_buttons = TRUE
    /\ use_select = TRUE
    /\ use_index = TRUE
    /\ extended_buttons = TRUE
    /\ buttons = Overrides({})
    /\ custom_buttons = Customs(0)
    /\ custom_callback = None
    /\ disable_after_timeout = TRUE
    /\ remove_after_timeout = FALSE
    /\ func_before_edit = None
    /\ func_after_edit \in {None, Some("func_after_edit")}
    /\ peer = None
    /\ InitSession

SpecKwargs == InitKwargs /\ [][Next]_vars

\* the ids of another session: the id of this one (randint gave both the same)
\* and a different one
PeerIds == SessionIds \cup {8}

\* the other session, Paginator(client, ctx of user u, PeerPages plain pages,
\* id=i, author_only=a), its message just sent
PeerSession(i, u, a) ==
    [id |-> i, user |-> u, author_only |-> a, index |-> 0, prev_index |-> 0,
     top |-> PeerPages - 1, component_ctx |-> None, shown |-> 0, pc |-> "wait",
     exit |-> "none", notices |-> 0]

\* two sessions on one event stream: this one open to every user, with an
\* index button (whose events go to the fallback of component_logic) and a
\* session callback; the other one of either user, for its author or for all
InitTwo ==
    /\ pages = PageList(MaxPages, "plain")
    /\ timeout = Some(DefaultTimeout)
    /\ author_only = FALSE
    /\ use_buttons = TRUE
    /\ use_select = TRUE
    /\ use_index = TRUE
    /\ extended_buttons = TRUE
    /\ buttons = Overrides({})
    /\ custom_buttons = Customs(0)
    /\ custom_callback = Some("custom_callback")
    /\ disable_after_timeout = TRUE
    /\ remove_after_timeout = FALSE
    /\ func_before_edit = None
    /\ func_after_edit = None
    /\ peer \in {Some(PeerSession(i, u, a)) : i \in PeerIds, u \in Users, a \in BOOLEAN}
    /\ peer[1].author_only \/ peer[1].user = Author
    /\ InitSession
    /\ NoKwargs

SpecTwo == InitTwo /\ [][NextTwo]_vars

\* the session with and without a timeout, with a post-render hook or none,
\* and with any top keyword argument
InitLive ==
    /\ pages \in {PageList(n, "plain") : n \in 2 .. MaxPages}
    /\ timeout \in {None, Some(DefaultTimeout)}
    /\ author_only = TRUE
    /\ use_buttons = TRUE
    /\ use_select = TRUE
    /\ use_index = FALSE
    /\ extended_buttons = TRUE
    /\ buttons = Overrides({})
    /\ custom_buttons = Customs(0)
    /\ custom_callback = None
    /\ disable_after_timeout = TRUE
    /\ remove_after_timeout = FALSE
    /\ func_before_edit = None
    /\ func_after_edit \in {None, Some("func_after_edit")}
    /\ peer = None
    /\ InitSession
    /\ index = 0
    /\ prev_index = 0
    /\ component_ctx = None
    /\ message = None

\* the timer of wait_for_component is fair: a wait that goes on waiting times
\* out; and every awaited step of run comes back
SpecLive ==
    /\ InitLive
    /\ [][Next]_vars
    /\ WF_vars(Timeout)
    /\ WF_vars(Send) /\ WF_vars(Before) /\ WF_vars(Logic) /\ WF_vars(Edit) /\ WF_vars(After)

-----------------------------------------------------------------------------
\* Properties.

\* the event in processing
ctx == component_ctx[1]

\* the steps of the latest event that are a call of one of these functions
\* and raised the stop signal
Stops(names) == {k \in 1 .. Len(steps) : steps[k].step \in names /\ steps[k].result.raises}

\* C1 as stated: for every session constructed with n >= 2 pages top is n - 1,
\* and index is within 0 .. top after every transition, whatever the events and
\* the callbacks' results.
C1_IndexInBounds ==
    /\ Len(pages) >= 2
    /\ top = Len(pages) - 1
    /\ index \in 0 .. top

\* C2: dispatching first gives 0, last gives top, prev gives max(i - 1, 0)
\* and next gives min(i + 1, top), from every index i in 0 .. top.
C2_Navigation ==
    [][(pc = "logic" /\ pc' = "edit" /\ index \in 0 .. top) =>
          /\ ctx.custom_id = <<"first", id>> => index' = 0
          /\ ctx.custom_id = <<"last", id>> => index' = top
          /\ ctx.custom_id = <<"prev", id>> =>
                index' = (IF index = 0 THEN 0 ELSE index - 1)
          /\ ctx.custom_id = <<"next", id>> =>
                index' = (IF index = top THEN top ELSE index + 1)]_vars

\* next was dispatched at the last page and left index there
C2_Witness ==
    /\ pc = "edit"
    /\ ctx.custom_id = <<"next", id>>
    /\ prev_index = top
    /\ index = top

\* the options the select row offers
offered == select_row[1].components[1].options

\* C3: a select event carrying the value of the option offered for page v
\* sets index to v - 1, so selecting the option of the page on display leaves
\* index as it is.
C3_Select ==
    [][(pc = "logic" /\ pc' = "edit" /\ ctx.custom_id = <<"select", id>>) =>
          /\ select_row # None
          /\ \E v \in 1 .. Len(offered) :
                /\ ctx.values = <<str(offered[v].value)>>
                /\ offered[v].value = v
                /\ index' = v - 1
          /\ (/\ index + 1 \in 1 .. Len(offered)
              /\ ctx.values = <<str(offered[index + 1].value)>>) => index' = index]_vars

\* the option of the page on display, a page beyond the ninth, was selected
C3_Witness ==
    /\ pc = "edit"
    /\ ctx.custom_id = <<"select", id>>
    /\ ctx.values = <<str(index + 1)>>
    /\ prev_index = index
    /\ index >= 10

\* C4: with author-only an event of another user is never admitted, and its
\* rejection changes nothing but the count of notices; without author-only no
\* event is rejected.
C4_AuthorOnly ==
    /\ []((author_only /\ component_ctx # None) => ctx.user = Author)
    /\ [](~author_only => notices = 0)
    /\ [][notices' # notices =>
             /\ author_only
             /\ pc = "wait"
             /\ notices' = notices + 1
             /\ UNCHANGED <<index, prev_index, top, component_ctx, message,
                            rendered, steps, pc, exit>>]_vars

\* an event was rejected after the session had moved to another page
C4_Witness ==
    /\ author_only
    /\ notices > 0
    /\ index > 0
    /\ pc = "wait"

\* an event of another user is in processing in a session open to everybody
C4_WitnessOpen ==
    /\ ~author_only
    /\ component_ctx # None
    /\ ctx.user # Author
    /\ pc = "edit"

\* every leaf of the tree is disabled
AllDisabled(tree) ==
    \A k \in 1 .. Len(leaves(tree)) :
        /\ "disabled" \in DOMAIN leaves(tree)[k]
        /\ leaves(tree)[k].disabled = TRUE

\* the two trees have the same rows of the same leaves, the disabled state aside
SameControls(t1, t2) ==
    /\ Len(t1) = Len(t2)
    /\ \A r \in 1 .. Len(t1) :
          /\ Len(t1[r].components) = Len(t2[r].components)
          /\ \A c \in 1 .. Len(t1[r].components) :
                LET a == t1[r].components[c]
                    b == t2[r].components[c]
                IN \A key \in (DOMAIN a \cup DOMAIN b) \ {"disabled"} :
                      key \in DOMAIN a /\ key \in DOMAIN b /\ a[key] = b[key]

\* C5: at the timeout, remove leaves no controls, disable leaves the control
\* tree of the current index with every leaf disabled, and otherwise what is
\* displayed does not change; the content is kept in every case.
C5_Timeout ==
    [][(exit = "none" /\ exit' = "timeout") =>
          /\ rendered'.content = rendered.content
          /\ remove_after_timeout => rendered'.components = <<>>
          /\ (~remove_after_timeout /\ disable_after_timeout) =>
                /\ AllDisabled(rendered'.components)
                /\ SameControls(rendered'.components, components)
          /\ (~remove_after_timeout /\ ~disable_after_timeout) =>
                rendered' = rendered]_vars

\* the timeout fired on a later page with a page row, with both behaviours set
C5_Witness ==
    /\ exit = "timeout"
    /\ remove_after_timeout
    /\ disable_after_timeout
    /\ index > 0
    /\ page_row # None

\* the timeout fired on a later page and disabled a select, buttons and a page row
C5_WitnessDisable ==
    /\ exit = "timeout"
    /\ ~remove_after_timeout
    /\ disable_after_timeout
    /\ index > 0
    /\ Len(rendered.components) = 3

\* C6: a stop signal of a render hook ends run at once with the result
\* record: it is the last step ever run, and the step that raised it changes
\* neither index nor the message.
C6_HookStop ==
    /\ [](\A k \in Stops({"func_before_edit", "func_after_edit"}) :
             k = Len(steps) /\ pc = "done" /\ exit = "stop")
    /\ [][pc # "done"]_vars
    /\ [][(pc \in {"before", "after"} /\ exit' = "stop") =>
             UNCHANGED <<index, prev_index, message, rendered>>]_vars

\* the pre-render hook stopped a session that had moved to another page
C6_Witness ==
    /\ Stops({"func_before_edit"}) # {}
    /\ index > 0

\* the post-render hook stopped the session after an edit
C6_WitnessAfter ==
    /\ Stops({"func_after_edit"}) # {}
    /\ Len(steps) > 2

\* the steps of the latest event where the pre-render hook returned v
BeforeReturned(vs) ==
    {k \in 1 .. Len(steps) :
        /\ steps[k].step = "func_before_edit"
        /\ ~steps[k].result.raises
        /\ steps[k].result.value \in vs}

\* C7 as stated: a false-like result of the pre-render hook (False, None, 0)
\* discards the event: no other step runs for it.
C7_FalseLikeDiscards ==
    BeforeReturned({"False", "None", "0"}) # {} =>
        /\ Len(steps) = 1
        /\ pc = "wait" \/ exit = "timeout"

\* C7 as amended: the result False of the pre-render hook discards the event:
\* no other step runs for it, index and the message are as they were, and the
\* session waits again.
C7_FalseDiscards ==
    /\ [](BeforeReturned({"False"}) # {} =>
             /\ Len(steps) = 1
             /\ pc = "wait" \/ exit = "timeout")
    /\ [][(pc = "before" /\ BeforeReturned({"False"})' # {}) =>
             /\ pc' = "wait"
             /\ UNCHANGED <<index, prev_index, message, rendered>>]_vars

\* the pre-render hook returned False in a session that had moved on
C7_Witness ==
    /\ BeforeReturned({"False"}) # {}
    /\ pc = "wait"
    /\ index > 0

\* C8 as stated: a stop signal of a page callback or of the session callback
\* ends run at once with the result record: it is the last step ever run and
\* no error reaches the caller.
C8_CallbackStop ==
    \A k \in Stops({"page_callback", "custom_callback"}) :
        k = Len(steps) /\ pc = "done" /\ exit = "stop"

\* the number of default buttons the flags ask for
n_defaults == 2 + (IF extended_buttons THEN 2 ELSE 0) + (IF use_index THEN 1 ELSE 0)

\* the roles of the default buttons the flags ask for, in order
roles_expected ==
    (IF extended_buttons THEN <<"first">> ELSE <<>>) \o <<"prev">>
    \o (IF use_index THEN <<"index">> ELSE <<>>) \o <<"next">>
    \o (IF extended_buttons THEN <<"last">> ELSE <<>>)

\* the rows on display that hold a navigation button
button_rows ==
    {r \in 1 .. Len(rendered.components) :
        \E c \in 1 .. Len(rendered.components[r].components) :
            \E kind \in {"first", "prev", "index", "next", "last"} :
                rendered.components[r].components[c].custom_id = <<kind, id>>}

\* what is displayed was rendered from the current index
shown_current ==
    /\ pc \in {"wait", "before", "logic", "after", "done"}
    /\ exit # "timeout"
    /\ rendered.id = MessageId
    /\ \A k \in 1 .. Len(steps) : steps[k].step = "edit" => ~steps[k].result.raises

\* C9: a displayed buttons row starts with the default buttons present, in
\* the order first, prev, index, next, last, each with the identifier of its
\* role; first and prev are disabled iff index = 0, next and last iff
\* index = top, and the index label always.
C9_ButtonsRow ==
    shown_current =>
        /\ use_buttons <=> button_rows # {}
        /\ \A r \in button_rows :
              LET row == rendered.components[r].components
              IN /\ Len(row) >= n_defaults
                 /\ \A c \in 1 .. Len(row) :
                       (\E kind \in {"first", "prev", "index", "next", "last"} :
                           row[c].custom_id = <<kind, id>>) <=> c <= n_defaults
                 /\ \A c \in 1 .. n_defaults :
                       /\ row[c].custom_id = <<roles_expected[c], id>>
                       /\ row[c].disabled =
                             CASE roles_expected[c] \in {"first", "prev"} -> index = 0
                               [] roles_expected[c] \in {"next", "last"} -> index = top
                               [] OTHER -> TRUE

\* a re-render on the last page with the five default buttons, some overridden
C9_Witness ==
    /\ pc = "wait"
    /\ steps # <<>>
    /\ index = top
    /\ use_index
    /\ extended_buttons
    /\ DOMAIN buttons = {"index", "next", "last"}

\* C10: the custom buttons follow the default buttons, all of them, iff
\* defaults plus customs are at most 5; otherwise the row is the default
\* buttons alone; the row never holds more than 5 buttons.
C10_CustomButtons ==
    shown_current =>
        \A r \in button_rows :
            LET row == rendered.components[r].components
                fits == n_defaults + Len(custom_buttons) <= 5
            IN /\ Len(row) <= 5
               /\ fits => row = SubSeq(row, 1, n_defaults) \o custom_buttons
               /\ ~fits => Len(row) = n_defaults

\* custom buttons that fill the row exactly were appended in a re-render
C10_Witness ==
    /\ pc = "wait"
    /\ steps # <<>>
    /\ Len(custom_buttons) > 0
    /\ n_defaults + Len(custom_buttons) = 5
    /\ \E r \in button_rows : Len(rendered.components[r].components) = 5

\* custom buttons that do not fit were dropped
C10_WitnessDropped ==
    /\ pc = "wait"
    /\ n_defaults + Len(custom_buttons) > 5
    /\ Len(custom_buttons) < 5
    /\ \E r \in button_rows : Len(rendered.components[r].components) = n_defaults

\* a navigation button is disabled in the tree on display and enabled in the
\* new tree, or the reverse
nav_disabled_differs ==
    /\ message # None
    /\ LET current == leaves(message[1].components)
           new == leaves(components)
       IN \E k \in 1 .. Min(Len(current), Len(new)) :
             /\ new[k].custom_id \in {custom_ids[2], custom_ids[3], custom_ids[5], custom_ids[6]}
             /\ current[k].custom_id = new[k].custom_id
             /\ current[k].disabled # new[k].disabled

\* C11 as stated: component_change is false when the tree on display equals
\* the new tree, and true when index has changed so that the disabled state
\* of a navigation button differs between the two.
C11_RenderDiff ==
    message # None =>
        /\ message[1].components = components => ~component_change
        /\ nav_disabled_differs => component_change

\* C12: the final edit of end_paginator has been issued exactly once when run
\* has returned through the timeout path, not at all when run has ended through
\* a stop signal, and never while the session is still looping.
C12_EndOnce ==
    /\ exit = "timeout" => end_edits = 1 /\ pc = "done"
    /\ exit = "stop" => end_edits = 0 /\ pc = "done"
    /\ pc # "done" => end_edits = 0 /\ exit = "none"

\* the timeout path was taken after an event had been processed
C12_Witness == exit = "timeout" /\ end_edits = 1 /\ steps # <<>> /\ index > 0

\* the stop path was taken by a hook
C12_WitnessStop == exit = "stop" /\ end_edits = 0 /\ Stops({"func_after_edit"}) # {}

\* C13 as stated: every constructed page has a non-empty title of at most 96
\* characters, whatever explicit title, content and embeds it was built from.
C13_TitleBound ==
    \A p \in 1 .. Len(pages) :
        /\ pages[p].title # <<>>
        /\ Len(pages[p].title) <= TitleLimit

\* C14 as stated: whenever the page callback yields a valid index (any value in
\* 0 .. top, 0 included) for the event in processing, that index is adopted and
\* the session-level callback is not invoked for that event.
C14_PageCallbackConsumes ==
    \A k \in 1 .. Len(steps) :
        (/\ steps[k].step = "page_callback"
         /\ ~steps[k].result.raises
         /\ in_range(steps[k].result.value))
        => /\ \A j \in 1 .. Len(steps) : steps[j].step # "custom_callback"
           /\ pc = "edit" => index = steps[k].result.value[1]

\* no callback step among these resolved the event: none raised, and each
\* returned nothing or a value that is the index of no page
Unresolved(s) ==
    \A k \in 1 .. Len(s) :
        s[k].step \in {"page_callback", "custom_callback"}
        => /\ ~s[k].result.raises
           /\ \/ s[k].result.value = None
              \/ s[k].result.value[1] \notin 0 .. Len(pages) - 1

\* C15: the dispatch of an admitted event whose identifier matches no
\* navigation role, and that no page or session callback resolves to a valid
\* index, leaves index unchanged and goes on to the re-render without error.
\* (The dispatch takes one step, or two when the session callback is awaited
\* after the page's: each leaves index as it was, and the last one goes on to
\* the re-render.)
C15_UnresolvedKeepsIndex ==
    [][(/\ pc = "logic"
        /\ ctx.custom_id \notin navigation_ids
        /\ Unresolved(steps'))
       => /\ index' = index
          /\ exit' = "none"
          /\ pc' \in {"logic", "edit"}
          /\ pc' = "logic" => custom_callback # None /\ ~custom_callback_pending]_vars

\* an unmatched event was dispatched, the session callback returned the
\* out-of-range value top + 1, and index is the one before the event
C15_Witness ==
    /\ pc = "edit"
    /\ ctx.custom_id \notin navigation_ids
    /\ Unresolved(steps)
    /\ \E k \in 1 .. Len(steps) :
          steps[k].step = "custom_callback" /\ steps[k].result.value = Some(top + 1)
    /\ index = prev_index
    /\ index > 0

\* the steps run sets off for one event, in the order of its code, and the
\* ones among the steps s
ExpectedSteps ==
    (IF func_before_edit # None THEN <<"func_before_edit">> ELSE <<>>)
        \o <<"component_logic", "edit">>
        \o (IF func_after_edit # None THEN <<"func_after_edit">> ELSE <<>>)
IsLoopStep(x) == x.step \in {"func_before_edit", "component_logic", "edit", "func_after_edit"}
LoopSteps(s) == SelectSeq(s, IsLoopStep)

\* the steps of the event in processing are a beginning of the expected ones,
\* with the callbacks inside the dispatch
InOrder ==
    LET m == LoopSteps(steps)
    IN /\ Len(m) <= Len(ExpectedSteps)
       /\ \A k \in 1 .. Len(m) : m[k].step = ExpectedSteps[k]
       /\ \A k \in 1 .. Len(steps) :
             ~IsLoopStep(steps[k])
             => /\ \E j \in 1 .. k - 1 : steps[j].step = "component_logic"
                /\ \A j \in 1 .. k - 1 : steps[j].step # "edit"

\* every step of the latest event has run, or a hook returning False sent
\* run back to the wait
Completed ==
    \/ steps = <<>>
    \/ Len(LoopSteps(steps)) = Len(ExpectedSteps)
    \/ /\ steps[Len(steps)].step \in {"func_before_edit", "func_after_edit"}
       /\ ~steps[Len(steps)].result.raises
       /\ is_False(steps[Len(steps)].result.value)

\* C16: one event is in processing at a time: an event is taken only by the
\* wait, its steps run in the order pre-render hook, dispatch, re-render,
\* post-render hook, and the wait is entered again only when they are over.
C16_OneEventInOrder ==
    [][/\ component_ctx' # component_ctx
          => pc = "wait" /\ pc' = "before" /\ steps' = <<>>
       /\ steps' # steps /\ steps' # <<>>
          => /\ pc # "wait"
             /\ Len(steps') > Len(steps)
             /\ SubSeq(steps', 1, Len(steps)) = steps
       /\ InOrder'
       /\ pc' = "wait" => Completed']_vars

\* the session waits again after the four steps of an event, a callback
\* having run inside the dispatch
C16_Witness ==
    /\ pc = "wait"
    /\ Len(LoopSteps(steps)) = 4
    /\ Len(steps) > 4
    /\ index > 0

\* C17 as stated: prev_index always holds the value index had before its latest
\* mutation: a step that changes index leaves the old index in prev_index, and
\* a step that does not change index does not change prev_index, so that
\* prev_index is the index before the dispatch while the session waits.
C17_PrevIndexBeforeMutation ==
    [][/\ index' # index => prev_index' = index
       /\ index' = index => prev_index' = prev_index]_vars

\* the kind of a row of the control tree, by the identifier of its first control
RowKind(row) ==
    IF row.components[1].custom_id = custom_ids[1] THEN "select"
    ELSE IF row.components[1].custom_id \in
              {custom_ids[2], custom_ids[3], custom_ids[4], custom_ids[5], custom_ids[6]}
         THEN "buttons"
    ELSE "page"

\* C18: the control tree is the function components of index, top and the
\* configuration, and what is displayed is that tree; it holds at most three
\* rows, one per row that is not None and none empty; the select row precedes
\* the buttons row; the page's own row is first when TOP, last when BOTTOM,
\* and after the select row and before the buttons row when MIDDLE.
C18_RowOrder ==
    LET T == components
        kinds == [r \in 1 .. Len(T) |-> RowKind(T[r])]
        at(kind) == {r \in 1 .. Len(T) : kinds[r] = kind}
        pos == pages_at(index).position
    IN /\ shown_current => rendered.components = T
       /\ Len(T) <= 3
       /\ \A r \in 1 .. Len(T) : T[r].components # <<>>
       /\ Cardinality(at("select")) = IF select_row = None THEN 0 ELSE 1
       /\ Cardinality(at("buttons")) = IF buttons_row = None THEN 0 ELSE 1
       /\ Cardinality(at("page")) = IF page_row = None THEN 0 ELSE 1
       /\ \A r \in at("select"), s \in at("buttons") : r < s
       /\ \A p \in at("page") :
             /\ T[p] = page_row[1]
             /\ pos = "top" => p = 1
             /\ pos = "low" => p = Len(T)
             /\ pos = "mid" => /\ \A r \in at("select") : r < p
                               /\ \A s \in at("buttons") : p < s

\* three rows are on display after an event, the page's own row in the middle
C18_Witness ==
    /\ pc = "wait"
    /\ steps # <<>>
    /\ index > 0
    /\ Len(rendered.components) = 3
    /\ pages_at(index).position = "mid"
    /\ RowKind(rendered.components[2]) = "page"

\* C19: with two sessions on one event stream, an event of a control of one
\* session is dispatched by that session only (even when both sessions drew
\* the same id), and a step of one session never changes the index, the
\* prev_index or the message on display of the other.
C19_Isolation ==
    [][/\ component_ctx' # None => component_ctx'[1].message_id = MessageId
       /\ (peer' # None /\ peer'[1].component_ctx # None)
          => peer'[1].component_ctx[1].message_id = PeerMessageId
       /\ peer' # peer => UNCHANGED <<index, prev_index, rendered, message>>
       /\ <<index, prev_index, rendered, message>>' # <<index, prev_index, rendered, message>>
          => peer' = peer]_vars

\* both sessions, drawn with the same id, have navigated on their own events,
\* the other one in the middle of its re-render
C19_Witness ==
    /\ peer # None
    /\ peer[1].id = id
    /\ peer[1].component_ctx # None
    /\ peer[1].pc = "edit"
    /\ peer[1].index > 0
    /\ peer[1].index # peer[1].shown
    /\ pc = "wait"
    /\ component_ctx # None
    /\ index = top
    /\ top > peer[1].top

\* the wait admits an event
Admit == pc = "wait" /\ pc' = "before"

\* a hook or a page callback raised the stop signal for the latest event
StopRaised == Stops({"func_before_edit", "func_after_edit", "page_callback"}) # {}

\* C20 as stated: with a timeout and a fair timer, a run that admits only finitely many
\* events ends; a run that ends without a stop signal ended by the timeout,
\* after the final edit; with timeout None there is no timeout exit, so that
\* without a stop signal the session never ends.
C20_Termination ==
    /\ [](pc = "done" /\ exit # "timeout" => StopRaised)
    /\ [](exit = "timeout" => timeout # None /\ pc = "done" /\ end_edits = 1)
    /\ [](timeout = None /\ ~StopRaised => pc # "done")
    /\ timeout # None => ([]<><<Admit>>_vars \/ <>(pc = "done"))

\* the edits issued for the latest admitted event
Edits == {k \in 1 .. Len(steps) : steps[k].step = "edit" /\ ~steps[k].result.raises}

\* the pre-render hook returned False for the latest admitted event
Skipped ==
    /\ steps # <<>>
    /\ steps[1].step = "func_before_edit"
    /\ ~steps[1].result.raises
    /\ is_False(steps[1].result.value)

\* C21: while the session waits, what was last rendered is the display data
\* of pages[index] with the control tree of the current index; an admitted
\* event the pre-render hook did not skip was answered by exactly one edit
\* before the wait, whether or not index changed, and a skipped one by none.
C21_RenderCurrent ==
    /\ Cardinality(Edits) <= 1
    /\ pc = "wait" =>
          /\ rendered = Message(components, pages_at(index))
          /\ steps # <<>> =>
                Cardinality(Edits) = IF Skipped THEN 0 ELSE 1

\* the session waits after an event that left index as it was on a later
\* page: an unmatched control no callback resolved, answered by one edit
C21_Witness ==
    /\ pc = "wait"
    /\ component_ctx # None
    /\ ctx.custom_id \notin navigation_ids
    /\ Unresolved(steps)
    /\ Cardinality(Edits) = 1
    /\ index > 0

\* the session waits after an event the pre-render hook skipped
C21_WitnessSkipped == pc = "wait" /\ Skipped /\ Edits = {} /\ index > 0

\* C22 as stated: for every configuration __init__ accepts (buttons or select
\* enabled, two pages or more), every control tree rendered while the session
\* runs holds a navigation row: the select row or the buttons row.
C22_NavigationRow ==
    (/\ use_buttons \/ use_select
     /\ Len(pages) >= 2
     /\ pc \notin {"send", "done"})
    => \E r \in 1 .. Len(rendered.components) :
          RowKind(rendered.components[r]) \in {"select", "buttons"}

====
